---- MODULE Spec2Model ----
(***************************************************************************)
(* ChatReadRetrieveReadBingCompare (app/backend/approaches/                *)
(* chatrrrbingcompare.py): the comparative-answer approach.  One instance  *)
(* of the class serves several run() coroutines; each coroutine suspends   *)
(* twice (the sub-approach's run, the chat completion).                    *)
(*                                                                         *)
(* Python values are modelled as follows.                                  *)
(*   str                 a TLA+ string; the completion text and the answer *)
(*                       are sequences of one-character strings, so that   *)
(*                       urllib.parse.unquote is computed character by     *)
(*                       character                                         *)
(*   dict.get(k)         a field holding Some(v), or None for a missing key*)
(*   ordered dict        a sequence of [key, value] records, distinct keys *)
(*   raised exception    pc = "failed" and result.error names it           *)
(***************************************************************************)
EXTENDS Integers, Sequences, FiniteSets, TLC

VARIABLES
    config,             \* the fields __init__ sets on the instance
    citations,          \* self.citations
    pc,                 \* per run() coroutine: where it is suspended
    history,            \* per coroutine: the history argument
    overrides,          \* per coroutine: the overrides argument
    rrr_response,       \* per coroutine: what the sub-approach returned
    messages,           \* per coroutine: the prompt handed to the completion
    bing_compare_resp,  \* per coroutine: what the completion returned
    result,             \* per coroutine: the envelope returned, or the error raised
    rrr_calls,          \* per coroutine: sub-approach invocations issued
    completion_calls,   \* per coroutine: completion invocations issued
    direct_pc,          \* a make_chat_completion() call made outside run()
    direct_result,      \* what that call returned
    built               \* what a get_messages_builder() call made outside run() returned

vars == <<config, citations, pc, history, overrides, rrr_response, messages,
          bing_compare_resp, result, rrr_calls, completion_calls,
          direct_pc, direct_result, built>>

run_vars == <<pc, history, overrides, rrr_response, messages,
              bing_compare_resp, result, rrr_calls, completion_calls>>

standalone_vars == <<direct_pc, direct_result, built>>

----------------------------------------------------------------------------
(* Python's None and a present value. *)
None == <<>>
Some(v) == <<v>>
IsNone(o) == o = <<>>
Value(o) == o[1]

(* dict.get(key, default) *)
GetOr(o, default) == IF IsNone(o) THEN default ELSE Value(o)

----------------------------------------------------------------------------
(* Bounds of the model. *)
MaxCitations == 2
MaxTextLen == 5
MaxShots == 2

(* The coroutines of run() that may be alive on the one instance. *)
Calls == {"call1", "call2"}

USER == "user"
ASSISTANT == "assistant"
SYSTEM == "system"

----------------------------------------------------------------------------
(* urllib.parse.unquote on ASCII text. *)
HexDigits == {"0", "1", "2", "3", "4", "5", "6", "7", "8", "9",
              "a", "b", "c", "d", "e", "f", "A", "B", "C", "D", "E", "F"}

HexVal(c) ==
    CASE c = "0" -> 0 [] c = "1" -> 1 [] c = "2" -> 2 [] c = "3" -> 3
      [] c = "4" -> 4 [] c = "5" -> 5 [] c = "6" -> 6 [] c = "7" -> 7
      [] c = "8" -> 8 [] c = "9" -> 9
      [] c \in {"a", "A"} -> 10 [] c \in {"b", "B"} -> 11
      [] c \in {"c", "C"} -> 12 [] c \in {"d", "D"} -> 13
      [] c \in {"e", "E"} -> 14 [] c \in {"f", "F"} -> 15

(* chr(n) for the ASCII codes 32..95. *)
AsciiPrintable ==
    <<" ", "!", "\"", "#", "$", "%", "&", "'", "(", ")", "*", "+", ",", "-", ".", "/",
      "0", "1", "2", "3", "4", "5", "6", "7", "8", "9", ":", ";", "<", "=", ">", "?",
      "@", "A", "B", "C", "D", "E", "F", "G", "H", "I", "J", "K", "L", "M", "N", "O",
      "P", "Q", "R", "S", "T", "U", "V", "W", "X", "Y", "Z", "[", "\\", "]", "^", "_">>

Chr(n) == AsciiPrintable[n - 31]

RECURSIVE unquote(_)
unquote(s) ==
    IF s = <<>> THEN <<>>
    ELSE IF /\ s[1] = "%"
            /\ Len(s) >= 3
            /\ s[2] \in HexDigits
            /\ s[3] \in HexDigits
         THEN <<Chr(16 * HexVal(s[2]) + HexVal(s[3]))>> \o unquote(SubSeq(s, 4, Len(s)))
         ELSE <<s[1]>> \o unquote(Tail(s))

(* str(idx) for idx >= 0, as characters. *)
DigitChars == <<"0", "1", "2", "3", "4", "5", "6", "7", "8", "9">>

RECURSIVE IntToStr(_)
IntToStr(n) ==
    IF n < 10 THEN <<DigitChars[n + 1]>>
    ELSE IntToStr(n \div 10) \o <<DigitChars[(n % 10) + 1]>>

(* f" [File{idx}]" *)
FileMarker(idx) == <<" ", "[", "F", "i", "l", "e">> \o IntToStr(idx) \o <<"]">>

(* The loop of lines 149-150: one marker per key, idx from 1. *)
RECURSIVE AppendMarkers(_, _, _)
AppendMarkers(final_response, keys, idx) ==
    IF keys = <<>> THEN final_response
    ELSE AppendMarkers(final_response \o FileMarker(idx), Tail(keys), idx + 1)

(* dict.keys() of an ordered mapping. *)
Keys(mapping) == [i \in 1..Len(mapping) |-> mapping[i].key]

----------------------------------------------------------------------------
(* __init__ *)
SafeModelChars == {"a", "b", "c", "d", "e", "f", "g", "h", "i", "j", "k", "l", "m",
                   "n", "o", "p", "q", "r", "s", "t", "u", "v", "w", "x", "y", "z",
                   "A", "B", "C", "D", "E", "F", "G", "H", "I", "J", "K", "L", "M",
                   "N", "O", "P", "Q", "R", "S", "T", "U", "V", "W", "X", "Y", "Z",
                   "0", "1", "2", "3", "4", "5", "6", "7", "8", "9", "_", "-", "."}

(* re.sub(r'[^a-zA-Z0-9_\-.]', '_', target_embedding_model) *)
EscapeTargetModel(name) ==
    [i \in 1..Len(name) |-> IF name[i] \in SafeModelChars THEN name[i] ELSE "_"]

(* core.modelhelper.get_token_limit: a lookup by model name. *)
get_token_limit(model_name) == <<"token_limit", model_name>>

Construct(a) ==
    [search_client |-> a.search_client,
     chatgpt_deployment |-> a.chatgpt_deployment,
     source_file_field |-> a.source_file_field,
     content_field |-> a.content_field,
     page_number_field |-> a.page_number_field,
     chunk_file_field |-> a.chunk_file_field,
     content_storage_container |-> a.content_storage_container,
     blob_client |-> a.blob_client,
     query_term_language |-> a.query_term_language,
     chatgpt_token_limit |-> get_token_limit(a.model_name),
     escaped_target_model |-> EscapeTargetModel(a.target_embedding_model),
     target_translation_language |-> a.target_translation_language,
     enrichment_endpoint |-> a.enrichment_endpoint,
     enrichment_key |-> a.enrichment_key,
     oai_service_name |-> a.oai_service_name,
     oai_service_key |-> a.oai_service_key,
     is_gov_cloud_deployment |-> a.is_gov_cloud_deployment,
     model_name |-> a.model_name,
     model_version |-> a.model_version,
     enrichment_appservice_name |-> a.enrichment_appservice_name]

(* The constructor arguments the model draws from. *)
ConstructorArgs ==
    {[search_client |-> "search_client",
      oai_service_name |-> "oai",
      oai_service_key |-> "key",
      chatgpt_deployment |-> "chat",
      source_file_field |-> "file_name",
      content_field |-> "content",
      page_number_field |-> "pages",
      chunk_file_field |-> "chunk_file",
      content_storage_container |-> "content",
      blob_client |-> "blob_client",
      query_term_language |-> lang,
      model_name |-> "gpt-35-turbo",
      model_version |-> "0613",
      is_gov_cloud_deployment |-> "false",
      target_embedding_model |-> emb,
      enrichment_appservice_name |-> "enrichment",
      target_translation_language |-> "en",
      enrichment_endpoint |-> "endpoint",
      enrichment_key |-> "ekey"] :
        lang \in {"English", "French"},
        emb \in {<<"a", "d", "a", "/", "2">>}}

----------------------------------------------------------------------------
(* The class constants. *)
COMPARATIVE_RESPONSE_PROMPT_FEW_SHOTS ==
    <<[role |-> USER,
       content |-> "I am looking for comparative information in the Bing Search Response and want to compare against the Internal Documents"],
      [role |-> ASSISTANT,
       content |-> "user is looking to compare information in Bing Search Response against Internal Documents."]>>

(* COMPARATIVE_SYSTEM_MESSAGE_CHAT_CONVERSATION.format(...): the keyword       *)
(* response_length_prompt has no placeholder in the template and is dropped. *)
FormatSystemMessage(query_term_language, follow_up_questions_prompt, response_length_prompt, userPersona, systemPersona) ==
    "You are an Azure OpenAI Completion system. Your persona is " \o systemPersona
    \o ". User persona is " \o userPersona \o ".\n"
    \o "    Compare and contrast the answers provided below from two sources of data. The first source is internal data indexed using a RAG pattern while the second source is from Bing Chat.\n"
    \o "    Only explain the differences between the two sources and nothing else. Do not provide personal opinions or assumptions.\n"
    \o "    Only answer in the language " \o query_term_language \o ".\n"
    \o "    If you cannot find answer in below sources, respond with I am not sure. Do not provide personal opinions or assumptions.\n"
    \o "\n"
    \o "    " \o follow_up_questions_prompt \o "\n"
    \o "    "

----------------------------------------------------------------------------
(* core.messagebuilder.MessageBuilder *)
MessageBuilder(system_content, chatgpt_model) ==
    <<[role |-> SYSTEM, content |-> system_content]>>

(* append_message(role, content): at the end of the list. *)
append_message(msgs, role, content) ==
    Append(msgs, [role |-> role, content |-> content])

(* append_message(role, content, index=i): list.insert(i, ...), i counted from 0. *)
append_message_at(msgs, role, content, index) ==
    LET at == IF index > Len(msgs) THEN Len(msgs) ELSE index
    IN  SubSeq(msgs, 1, at) \o <<[role |-> role, content |-> content]>>
        \o SubSeq(msgs, at + 1, Len(msgs))

(* for shot in few_shots: message_builder.append_message(role, content) *)
RECURSIVE AppendShots(_, _)
AppendShots(msgs, few_shots) ==
    IF few_shots = <<>> THEN msgs
    ELSE AppendShots(append_message(msgs, Head(few_shots).role, Head(few_shots).content),
                     Tail(few_shots))

(* As get_messages_builder, with append_index = len(few_shots). *)
get_messages_builder_OffByOne(system_prompt, model_id, user_conv, few_shots, max_tokens) ==
    LET message_builder == AppendShots(MessageBuilder(system_prompt, model_id), few_shots)
        append_index == Len(few_shots)
    IN  append_message_at(message_builder, USER, user_conv, append_index)

(* get_messages_builder: max_tokens is accepted and never read. *)
get_messages_builder(system_prompt, model_id, user_conv, few_shots, max_tokens) ==
    LET message_builder == AppendShots(MessageBuilder(system_prompt, model_id), few_shots)
        append_index == Len(few_shots) + 1
    IN  append_message_at(message_builder, USER, user_conv, append_index)

----------------------------------------------------------------------------
(* The arguments of run() and the collaborators' results. *)

(* One turn of the history: .get("user") and .get("bot"). *)
Turns == [user : {None, Some("Q")}, bot : {None, Some("B")}]

SeqsUpTo(S, n) == UNION {[1..k -> S] : k \in 0..n}

(* Citation mappings: insertion-ordered, keys distinct. *)
CitationKeys == {"doc1.pdf", "doc2.pdf", "doc3.pdf"}

DistinctKeys(mapping) ==
    \A i, j \in 1..Len(mapping) : mapping[i].key = mapping[j].key => i = j

CitationMaps(keys, values) ==
    {m \in SeqsUpTo([key : keys, value : values], MaxCitations) : DistinctKeys(m)}

(* The completion texts: every string over the alphabet up to MaxTextLen. *)
TextAlphabet == {"%", "2", "5"}
Texts == SeqsUpTo(TextAlphabet, MaxTextLen)

(* max_tokens: int = 4096, the default of get_messages_builder. *)
DefaultMaxTokens == 4096

(* 4097 - 500, the budget run() hands to get_messages_builder. *)
MaxTokensBudget == 4097 - 500

(* int(overrides.get("response_length") or 1024): a value is an int or a str. *)
Falsy(v) == (v.type = "int" /\ v.val = 0) \/ (v.type = "str" /\ v.val = "")
IntParses(v) == v.type = "int" \/ (v.type = "str" /\ v.val \in {"512", "2048"})
IntOf(v) ==
    IF v.type = "int" THEN v.val
    ELSE IF v.val = "512" THEN 512 ELSE 2048

DefaultResponseLength == [type |-> "int", val |-> 1024]

(* overrides.get("response_length") or 1024 *)
ResponseLengthValue(o) ==
    IF IsNone(o.response_length) \/ Falsy(Value(o.response_length))
    THEN DefaultResponseLength ELSE Value(o.response_length)

(* Approach.get_response_length_prompt_text: its text goes to a format  *)
(* keyword the template has no placeholder for.                          *)
get_response_length_prompt_text(response_length) ==
    <<"response_length_prompt", response_length>>

----------------------------------------------------------------------------
(* As UserQuery, with history[-1].get("user", ""): a missing text defaulted. *)
UserQuery_Default(h) == IF IsNone(h[Len(h)].user) THEN Some("") ELSE h[Len(h)].user

(* user_query = history[-1].get("user") *)
UserQuery(h) == h[Len(h)].user

(* bing_answer = history[0].get("bot") *)
BingAnswer(h) == h[1].bot

(* run(): lines 115-141, between the two awaits.  The first step that raises *)
(* decides the error; "" when none does.                                      *)
AssemblyError(h, o, r) ==
    IF h = <<>> THEN "IndexError"
    ELSE IF ~IntParses(ResponseLengthValue(o)) THEN "ValueError"
    ELSE IF IsNone(UserQuery(h)) \/ IsNone(r.answer) \/ IsNone(BingAnswer(h))
         THEN "TypeError"
    ELSE ""

(* line 124 *)
BingCompareQuery(h, r) ==
    Value(UserQuery(h)) \o "Internal Documents:\n" \o Value(r.answer) \o "\n\n"
    \o " Bing Search Response:\n" \o Value(BingAnswer(h)) \o "\n\n"

(* lines 126-140 *)
AssembleMessages(cfg, h, o, r) ==
    LET user_persona == GetOr(o.user_persona, "")
        system_persona == GetOr(o.system_persona, "")
        response_length == IntOf(ResponseLengthValue(o))
    IN  get_messages_builder(
            FormatSystemMessage(cfg.query_term_language, "",
                                get_response_length_prompt_text(response_length),
                                user_persona, system_persona),
            cfg.model_name,
            BingCompareQuery(h, r),
            COMPARATIVE_RESPONSE_PROMPT_FEW_SHOTS,
            MaxTokensBudget)

(* lines 141 and 155: str(message) of each message joined by "\n\n", every *)
(* newline then replaced by "<br>".  str() of a dict escapes the newlines  *)
(* inside the contents, so only the separators are replaced.               *)
RECURSIVE JoinBr(_)
JoinBr(msgs) ==
    IF msgs = <<>> THEN <<>>
    ELSE IF Len(msgs) = 1 THEN <<<<"str", msgs[1]>>>>
    ELSE <<<<"str", msgs[1]>>, "<br>", "<br>">> \o JoinBr(Tail(msgs))

ThoughtsLabel == "Searched for:<br>A Comparitive Analysis<br><br>Conversations:<br>"

Thoughts(msgs) == <<ThoughtsLabel>> \o JoinBr(msgs)

(* lines 146-150 *)
FinalResponse(resp, cites) == AppendMarkers(unquote(resp), Keys(cites), 1)

(* lines 152-157 *)
Envelope(final_response, msgs, cites) ==
    [data_points |-> None,
     answer |-> unquote(final_response),
     thoughts |-> Thoughts(msgs),
     citation_lookup |-> cites]

Returned(env) == [kind |-> "envelope", value |-> env]
Raised(err) == [kind |-> "error", value |-> err]

----------------------------------------------------------------------------
(* The state after construction: no coroutine started, citations = {} (the *)
(* class attribute).                                                        *)
NoOverrides == [user_persona |-> None, system_persona |-> None, response_length |-> None]

Init ==
    /\ config \in {Construct(a) : a \in ConstructorArgs}
    /\ citations = Some(<<>>)
    /\ pc = [c \in Calls |-> "idle"]
    /\ history = [c \in Calls |-> <<>>]
    /\ overrides = [c \in Calls |-> NoOverrides]
    /\ rrr_response = [c \in Calls |-> None]
    /\ messages = [c \in Calls |-> <<>>]
    /\ bing_compare_resp = [c \in Calls |-> None]
    /\ result = [c \in Calls |-> None]
    /\ rrr_calls = [c \in Calls |-> 0]
    /\ completion_calls = [c \in Calls |-> 0]
    /\ direct_pc = "idle"
    /\ direct_result = None
    /\ built = None

(* As StoreCitations, with self.citations.update(...): the new entries are *)
(* merged into the mapping already on the instance.                       *)
StoreCitations_Merge(r) ==
    IF IsNone(r.citation_lookup) \/ IsNone(citations) THEN r.citation_lookup
    ELSE LET old == Value(citations)
             new == Value(r.citation_lookup)
             NewValue(k) == (CHOOSE j \in 1..Len(new) : new[j].key = k)
             updated == [i \in 1..Len(old) |->
                            IF \E j \in 1..Len(new) : new[j].key = old[i].key
                            THEN new[NewValue(old[i].key)] ELSE old[i]]
             added == SelectSeq(new, LAMBDA e : \A i \in 1..Len(old) : old[i].key # e.key)
         IN  Some(updated \o added)

(* As StoreCitations, storing only while the instance holds no citation yet. *)
StoreCitations_KeepExisting(r) ==
    IF citations = Some(<<>>) THEN r.citation_lookup ELSE citations

(* line 115: self.citations = rrr_response.get("citation_lookup") *)
StoreCitations(r) == r.citation_lookup

(* As CitationsForMarkers, looping over the coroutine's own sub-approach result. *)
CitationsForMarkers_Local(c) == Value(rrr_response[c]).citation_lookup

(* line 149 reads self.citations for the marker loop. *)
CitationsForMarkers(c) == citations

(* As CitationsForEnvelope, returning the coroutine's own sub-approach result. *)
CitationsForEnvelope_Local(c) == Value(rrr_response[c]).citation_lookup

(* line 156 reads self.citations for the envelope. *)
CitationsForEnvelope(c) == citations

InProgress(c) == pc[c] \in {"await_rrr", "await_completion"}

(* As RunCall, with self.citations reset to {} when run() starts. *)
RunCall_ResetCitations(c, h, o) ==
    /\ pc[c] = "idle"
    /\ pc' = [pc EXCEPT ![c] = "await_rrr"]
    /\ history' = [history EXCEPT ![c] = h]
    /\ overrides' = [overrides EXCEPT ![c] = o]
    /\ rrr_calls' = [rrr_calls EXCEPT ![c] = @ + 1]
    /\ citations' = Some(<<>>)
    /\ UNCHANGED <<config, rrr_response, messages, bing_compare_resp,
                   result, completion_calls, standalone_vars>>

(* run(history, overrides), lines 92-113: build the sub-approach, call its *)
(* run and suspend.                                                         *)
RunCall(c, h, o) ==
    /\ pc[c] = "idle"
    /\ pc' = [pc EXCEPT ![c] = "await_rrr"]
    /\ history' = [history EXCEPT ![c] = h]
    /\ overrides' = [overrides EXCEPT ![c] = o]
    /\ rrr_calls' = [rrr_calls EXCEPT ![c] = @ + 1]
    /\ UNCHANGED <<config, citations, rrr_response, messages, bing_compare_resp,
                   result, completion_calls, standalone_vars>>

(* As RrrFails, with the failure caught and an empty sub-approach result used. *)
RrrFails_Fallback(c) ==
    /\ pc[c] = "await_rrr"
    /\ pc' = [pc EXCEPT ![c] = "await_completion"]
    /\ completion_calls' = [completion_calls EXCEPT ![c] = @ + 1]
    /\ UNCHANGED <<config, citations, history, overrides, rrr_response, messages,
                   bing_compare_resp, result, rrr_calls, standalone_vars>>

(* The sub-approach raises: run() has no handler, the exception leaves it. *)
RrrFails(c) ==
    /\ pc[c] = "await_rrr"
    /\ pc' = [pc EXCEPT ![c] = "failed"]
    /\ result' = [result EXCEPT ![c] = Some(Raised("SubApproachError"))]
    /\ UNCHANGED <<config, citations, history, overrides, rrr_response, messages,
                   bing_compare_resp, rrr_calls, completion_calls, standalone_vars>>

(* The sub-approach returns r; lines 113-144: store the citations, build *)
(* the prompt, call make_chat_completion and suspend in it.              *)
RrrReturns(c, r) ==
    /\ pc[c] = "await_rrr"
    /\ rrr_response' = [rrr_response EXCEPT ![c] = Some(r)]
    /\ citations' = StoreCitations(r)
    /\ LET err == AssemblyError(history[c], overrides[c], r)
       IN  IF err # ""
           THEN /\ pc' = [pc EXCEPT ![c] = "failed"]
                /\ result' = [result EXCEPT ![c] = Some(Raised(err))]
                /\ UNCHANGED <<messages, completion_calls>>
           ELSE /\ pc' = [pc EXCEPT ![c] = "await_completion"]
                /\ messages' = [messages EXCEPT ![c] =
                                   AssembleMessages(config, history[c], overrides[c], r)]
                /\ completion_calls' = [completion_calls EXCEPT ![c] = @ + 1]
                /\ UNCHANGED result
    /\ UNCHANGED <<config, history, overrides, bing_compare_resp, rrr_calls,
                   standalone_vars>>

(* As CompletionFails, with the completion call issued again on failure. *)
CompletionFails_Retry(c) ==
    /\ pc[c] = "await_completion"
    /\ completion_calls[c] < 2
    /\ completion_calls' = [completion_calls EXCEPT ![c] = @ + 1]
    /\ UNCHANGED <<config, citations, pc, history, overrides, rrr_response, messages,
                   bing_compare_resp, result, rrr_calls, standalone_vars>>

(* openai.ChatCompletion.acreate raises inside make_chat_completion. *)
CompletionFails(c) ==
    /\ pc[c] = "await_completion"
    /\ pc' = [pc EXCEPT ![c] = "failed"]
    /\ result' = [result EXCEPT ![c] = Some(Raised("CompletionError"))]
    /\ UNCHANGED <<config, citations, history, overrides, rrr_response, messages,
                   bing_compare_resp, rrr_calls, completion_calls, standalone_vars>>

(* make_chat_completion returns text; lines 144-157: decode, append the   *)
(* markers over self.citations, return the envelope.  self.citations is   *)
(* None when the sub-approach's result had no "citation_lookup":          *)
(* None.keys() raises.                                                    *)
CompletionReturns(c, text) ==
    /\ pc[c] = "await_completion"
    /\ bing_compare_resp' = [bing_compare_resp EXCEPT ![c] = Some(text)]
    /\ IF IsNone(CitationsForMarkers(c))
       THEN /\ pc' = [pc EXCEPT ![c] = "failed"]
            /\ result' = [result EXCEPT ![c] = Some(Raised("AttributeError"))]
       ELSE /\ pc' = [pc EXCEPT ![c] = "done"]
            /\ result' = [result EXCEPT ![c] =
                   Some(Returned(Envelope(
                       FinalResponse(text, Value(CitationsForMarkers(c))),
                       messages[c],
                       CitationsForEnvelope(c))))]
    /\ UNCHANGED <<config, citations, history, overrides, rrr_response, messages,
                   rrr_calls, completion_calls, standalone_vars>>

(* The caller has taken the envelope or the exception: the coroutine is gone. *)
Collect(c) ==
    /\ pc[c] \in {"done", "failed"}
    /\ pc' = [pc EXCEPT ![c] = "idle"]
    /\ history' = [history EXCEPT ![c] = <<>>]
    /\ overrides' = [overrides EXCEPT ![c] = NoOverrides]
    /\ rrr_response' = [rrr_response EXCEPT ![c] = None]
    /\ messages' = [messages EXCEPT ![c] = <<>>]
    /\ bing_compare_resp' = [bing_compare_resp EXCEPT ![c] = None]
    /\ result' = [result EXCEPT ![c] = None]
    /\ rrr_calls' = [rrr_calls EXCEPT ![c] = 0]
    /\ completion_calls' = [completion_calls EXCEPT ![c] = 0]
    /\ UNCHANGED <<config, citations, standalone_vars>>

(* make_chat_completion(messages) called by itself: lines 169-176. *)
MakeChatCompletionCall ==
    /\ direct_pc = "idle"
    /\ direct_pc' = "await_completion"
    /\ direct_result' = None
    /\ UNCHANGED <<config, citations, run_vars, built>>

MakeChatCompletionReturns(text) ==
    /\ direct_pc = "await_completion"
    /\ direct_pc' = "idle"
    /\ direct_result' = Some(Returned(text))
    /\ UNCHANGED <<config, citations, run_vars, built>>

MakeChatCompletionFails ==
    /\ direct_pc = "await_completion"
    /\ direct_pc' = "idle"
    /\ direct_result' = Some(Raised("CompletionError"))
    /\ UNCHANGED <<config, citations, run_vars, built>>

(* get_messages_builder(...) called by itself: lines 192-204. *)
GetMessagesBuilderCall(system_prompt, user_conv, few_shots) ==
    /\ built' = Some([system_prompt |-> system_prompt,
                       user_conv |-> user_conv,
                       few_shots |-> few_shots,
                       messages |-> get_messages_builder(system_prompt, config.model_name,
                                                         user_conv, few_shots,
                                                         DefaultMaxTokens)])
    /\ UNCHANGED <<config, citations, run_vars, direct_pc, direct_result>>

----------------------------------------------------------------------------
(* The inputs each specification draws from. *)
ValidHistory == <<[user |-> None, bot |-> Some("B")], [user |-> Some("Q"), bot |-> None]>>
OneTurnHistory == <<[user |-> Some("Q"), bot |-> Some("B")]>>
NoUserHistory == <<[user |-> None, bot |-> Some("B")]>>
NoBotHistory == <<[user |-> Some("Q"), bot |-> None], [user |-> Some("Q"), bot |-> None]>>

PersonaOverrides ==
    [user_persona |-> Some("analyst"), system_persona |-> Some("assistant"),
     response_length |-> Some([type |-> "int", val |-> 2048])]
BadLengthOverrides ==
    [user_persona |-> None, system_persona |-> None,
     response_length |-> Some([type |-> "str", val |-> "long"])]

RrrResponses(answers, maps) ==
    [answer : answers, citation_lookup : {Some(m) : m \in maps} \cup {None}]

SampleTexts == { <<"2">>, <<"%", "2", "5", "2", "5">> }

(* Spec: any interleaving of run() coroutines on the one instance. *)
Next ==
    \E c \in Calls :
        \/ \E h \in {ValidHistory, NoUserHistory, NoBotHistory, <<>>},
              o \in {NoOverrides, BadLengthOverrides} :
               RunCall(c, h, o)
        \/ RrrFails(c)
        \/ \E r \in RrrResponses({Some("A"), None},
                                 CitationMaps({"doc1.pdf", "doc2.pdf"}, {"meta1"})) :
               RrrReturns(c, r)
        \/ CompletionFails(c)
        \/ \E t \in SampleTexts : CompletionReturns(c, t)
        \/ Collect(c)

Spec == Init /\ [][Next]_vars

(* SpecSeq: run() is called only while no other run() is in progress. *)
NoRunInProgress == \A c \in Calls : ~InProgress(c)

NextSeq ==
    \E c \in Calls :
        \/ \E h \in {ValidHistory, OneTurnHistory}, o \in {PersonaOverrides} :
               NoRunInProgress /\ RunCall(c, h, o)
        \/ RrrFails(c)
        \/ \E r \in RrrResponses({Some("A")},
                                 CitationMaps({"doc1.pdf", "doc2.pdf"}, {"meta1", "meta2"})) :
               RrrReturns(c, r)
        \/ CompletionFails(c)
        \/ \E t \in SampleTexts : CompletionReturns(c, t)
        \/ Collect(c)

SpecSeq == Init /\ [][NextSeq]_vars

(* SpecText: one run() at a time, over every completion text. *)
NextText ==
    \E c \in {"call1"} :
        \/ \E h \in {ValidHistory} : RunCall(c, h, NoOverrides)
        \/ RrrFails(c)
        \/ \E r \in RrrResponses({Some("A")}, CitationMaps(CitationKeys, {"meta1"})) :
               RrrReturns(c, r)
        \/ CompletionFails(c)
        \/ \E t \in Texts : CompletionReturns(c, t)
        \/ Collect(c)

SpecText == Init /\ [][NextText]_vars

(* SpecBuilder: get_messages_builder over every few-shot list, beside one run(). *)
ShotMessages == [role : {USER, ASSISTANT}, content : {"shot1", "shot2"}]

NextBuilder ==
    \/ \E system_prompt \in {"sys1", "sys2"}, user_conv \in {"conv1", "conv2"},
          few_shots \in SeqsUpTo(ShotMessages, MaxShots) :
           GetMessagesBuilderCall(system_prompt, user_conv, few_shots)
    \/ \E c \in {"call1"} :
           \/ \E o \in {NoOverrides, PersonaOverrides} : RunCall(c, ValidHistory, o)
           \/ RrrFails(c)
           \/ \E r \in RrrResponses({Some("A")}, CitationMaps({"doc1.pdf"}, {"meta1"})) :
                  RrrReturns(c, r)
           \/ CompletionFails(c)
           \/ \E t \in {<<"2">>} : CompletionReturns(c, t)
           \/ Collect(c)

SpecBuilder == Init /\ [][NextBuilder]_vars

(* SpecAll: run() coroutines interleaved with direct calls of the two helpers. *)
NextAll ==
    \/ \E c \in Calls :
        \/ \E h \in {ValidHistory, NoUserHistory} : RunCall(c, h, NoOverrides)
        \/ RrrFails(c)
        \/ \E r \in RrrResponses({Some("A")}, CitationMaps({"doc1.pdf"}, {"meta1"})) :
               RrrReturns(c, r)
        \/ CompletionFails(c)
        \/ \E t \in {<<"2">>} : CompletionReturns(c, t)
        \/ Collect(c)
    \/ MakeChatCompletionCall
    \/ \E t \in {<<"2">>} : MakeChatCompletionReturns(t)
    \/ MakeChatCompletionFails
    \/ \E few_shots \in {<<>>, COMPARATIVE_RESPONSE_PROMPT_FEW_SHOTS} :
           GetMessagesBuilderCall("sys1", "conv1", few_shots)

SpecAll == Init /\ [][NextAll]_vars
----------------------------------------------------------------------------
(* What the properties below read. *)
EnvelopeOf(c) == Value(result[c]).value

HasEnvelope(c) == ~IsNone(result[c]) /\ Value(result[c]).kind = "envelope"

HasError(c) == ~IsNone(result[c]) /\ Value(result[c]).kind = "error"

(* The mapping the sub-approach of coroutine c returned. *)
OwnCitations(c) == Value(rrr_response[c]).citation_lookup

(* " [File1] [File2] ... [Filen]", spelled out. *)
RECURSIVE ExpectedMarkers(_)
ExpectedMarkers(n) ==
    IF n = 0 THEN <<>>
    ELSE ExpectedMarkers(n - 1) \o <<" ", "[", "F", "i", "l", "e">> \o IntToStr(n) \o <<"]">>

(* How many " [File" an answer holds. *)
CountMarkers(answer) ==
    Cardinality({i \in 1..(Len(answer) - 5) :
                    SubSeq(answer, i, i + 5) = <<" ", "[", "F", "i", "l", "e">>})

(* history[-1] has no "user", history[0] has no "bot", or history is empty. *)
Malformed(h) == h = <<>> \/ IsNone(h[Len(h)].user) \/ IsNone(h[1].bot)

----------------------------------------------------------------------------
(* C1: a run() that executes with no other run() in progress returns an    *)
(* envelope whose citation_lookup is the mapping its own sub-approach       *)
(* returned: the same keys and values in the same order.                    *)
C1_CitationLookupIsSubApproachMapping ==
    \A c \in Calls :
        pc[c] = "done" => EnvelopeOf(c).citation_lookup = OwnCitations(c)

C1_Witness ==
    \E c \in Calls :
        /\ pc[c] = "done"
        /\ OwnCitations(c) = Some(<<[key |-> "doc2.pdf", value |-> "meta2"],
                                    [key |-> "doc1.pdf", value |-> "meta1"]>>)
        /\ EnvelopeOf(c).citation_lookup = OwnCitations(c)

(* C2: when run() coroutines interleave, the envelope a coroutine returns   *)
(* carries whatever mapping self.citations holds when its completion        *)
(* returns, and its markers are counted from that mapping: a second         *)
(* coroutine that stored its mapping meanwhile replaces the first one's.    *)
C2_EnvelopeCarriesInstanceField ==
    [][\A c \in Calls :
          (pc[c] = "await_completion" /\ pc'[c] = "done") =>
              /\ EnvelopeOf(c)'.citation_lookup = citations
              /\ CountMarkers(EnvelopeOf(c)'.answer) = Len(Value(citations))]_vars

(* The first coroutine has returned the second one's mapping while the      *)
(* second is still awaiting its completion.                                 *)
C2_Witness ==
    \E c, d \in Calls :
        /\ c # d
        /\ pc[c] = "done"
        /\ pc[d] = "await_completion"
        /\ ~IsNone(OwnCitations(d))
        /\ ~IsNone(OwnCitations(c))
        /\ EnvelopeOf(c).citation_lookup = OwnCitations(d)
        /\ EnvelopeOf(c).citation_lookup # OwnCitations(c)
        /\ CountMarkers(EnvelopeOf(c).answer) = Len(Value(OwnCitations(d)))
        /\ CountMarkers(EnvelopeOf(c).answer) # Len(Value(OwnCitations(c)))

(* C3: the answer of a run() executed alone is the completion text          *)
(* URL-decoded once, followed by " [File1]" ... " [FileN]", N the number of *)
(* keys of the mapping its sub-approach returned.                           *)
C3_AnswerIsDecodedTextThenMarkers ==
    \A c \in Calls :
        pc[c] = "done" =>
            EnvelopeOf(c).answer =
                unquote(Value(bing_compare_resp[c]))
                \o ExpectedMarkers(Len(Value(OwnCitations(c))))

(* What lines 146-154 compute instead: the completion text decoded twice,  *)
(* then the markers.                                                        *)
AnswerIsTwiceDecodedTextThenMarkers ==
    \A c \in Calls :
        pc[c] = "done" =>
            EnvelopeOf(c).answer =
                unquote(unquote(Value(bing_compare_resp[c])))
                \o ExpectedMarkers(Len(Value(OwnCitations(c))))

(* C4: the completion is invoked only once the sub-approach's result is     *)
(* there, the envelope is returned only once the completion's result is     *)
(* there, and a run() that returned an envelope issued one call of each.    *)
C4_SequentialExactlyOnce ==
    \A c \in Calls :
        /\ completion_calls[c] >= 1 => (rrr_calls[c] >= 1 /\ ~IsNone(rrr_response[c]))
        /\ ~IsNone(rrr_response[c]) => rrr_calls[c] >= 1
        /\ HasEnvelope(c) =>
               /\ pc[c] = "done"
               /\ ~IsNone(rrr_response[c])
               /\ ~IsNone(bing_compare_resp[c])
               /\ rrr_calls[c] = 1
               /\ completion_calls[c] = 1

C4_Witness ==
    \E c \in Calls :
        /\ pc[c] = "done"
        /\ HasEnvelope(c)
        /\ rrr_calls[c] = 1
        /\ completion_calls[c] = 1

(* C5: a sub-approach that ends without a result, or a completion that ends *)
(* without a result, ends run() with that failure: no envelope, no second   *)
(* attempt, and no completion call after a failed sub-approach.             *)
C5_FailurePropagates ==
    [][\A c \in Calls :
          /\ (/\ pc[c] = "await_rrr"
              /\ <<pc[c], rrr_calls[c]>>' # <<pc[c], rrr_calls[c]>>
              /\ IsNone(rrr_response'[c]))
             => /\ pc'[c] = "failed"
                /\ result'[c] = Some(Raised("SubApproachError"))
                /\ rrr_calls'[c] = rrr_calls[c]
                /\ completion_calls'[c] = 0
          /\ (/\ pc[c] = "await_completion"
              /\ <<pc[c], completion_calls[c]>>' # <<pc[c], completion_calls[c]>>
              /\ IsNone(bing_compare_resp'[c]))
             => /\ pc'[c] = "failed"
                /\ result'[c] = Some(Raised("CompletionError"))
                /\ rrr_calls'[c] = rrr_calls[c]
                /\ completion_calls'[c] = completion_calls[c]
          /\ pc[c] = "failed"
             => \/ pc'[c] = "idle"
                \/ /\ pc'[c] = "failed"
                   /\ result'[c] = result[c]
                   /\ rrr_calls'[c] = rrr_calls[c]
                   /\ completion_calls'[c] = completion_calls[c]]_vars

C5_Witness ==
    \E c, d \in Calls :
        /\ pc[c] = "failed"
        /\ result[c] = Some(Raised("SubApproachError"))
        /\ completion_calls[c] = 0
        /\ pc[d] = "failed"
        /\ result[d] = Some(Raised("CompletionError"))

(* C6: two run() calls made one after the other on the instance, with the   *)
(* same history and overrides and the same sub-approach and completion      *)
(* results, return the same envelope, whatever run() was called before.     *)
C6_SequentialRunsAgree ==
    \A c, d \in Calls :
        (/\ pc[c] = "done"
         /\ pc[d] = "done"
         /\ history[c] = history[d]
         /\ overrides[c] = overrides[d]
         /\ rrr_response[c] = rrr_response[d]
         /\ bing_compare_resp[c] = bing_compare_resp[d])
        => result[c] = result[d]

C6_Witness ==
    \E c, d \in Calls :
        /\ c # d
        /\ pc[c] = "done"
        /\ pc[d] = "done"
        /\ history[c] = history[d]
        /\ overrides[c] = overrides[d]
        /\ rrr_response[c] = rrr_response[d]
        /\ bing_compare_resp[c] = bing_compare_resp[d]
        /\ Len(Value(OwnCitations(c))) = 2
        /\ result[c] = result[d]

C8_MalformedHistoryRaises ==
    \A c \in Calls :
        (pc[c] # "idle" /\ Malformed(history[c])) =>
            /\ pc[c] \in {"await_rrr", "failed"}
            /\ completion_calls[c] = 0
            /\ IsNone(bing_compare_resp[c])
            /\ ~HasEnvelope(c)
            /\ pc[c] = "failed" => HasError(c)

C8_Witness ==
    \E c, d \in Calls :
        /\ pc[c] = "failed"
        /\ history[c] # <<>>
        /\ Malformed(history[c])
        /\ ~IsNone(rrr_response[c])
        /\ result[c] = Some(Raised("TypeError"))
        /\ pc[d] = "failed"
        /\ history[d] = <<>>
        /\ result[d] = Some(Raised("IndexError"))

(* C9: no call changes a configuration field, and self.citations changes    *)
(* only in the step of run() that receives the sub-approach's result.       *)
C9_OnlyCitationsChanges ==
    [][/\ config' = config
       /\ citations' # citations =>
              \E c \in Calls :
                  /\ pc[c] = "await_rrr"
                  /\ IsNone(rrr_response[c])
                  /\ ~IsNone(rrr_response'[c])
                  /\ citations' = Value(rrr_response'[c]).citation_lookup]_vars

C9_Witness ==
    /\ citations # Some(<<>>)
    /\ ~IsNone(built)
    /\ ~IsNone(direct_result)
    /\ \E c, d \in Calls : pc[c] = "failed" /\ pc[d] = "done"
    /\ config \in {Construct(a) : a \in ConstructorArgs}

(* C10: under any interleaving, an envelope holds as many " [File{n}]"      *)
(* markers in its answer as its own citation_lookup has keys.               *)
C10_MarkersMatchOwnLookup ==
    \A c \in Calls :
        pc[c] = "done" =>
            /\ ~IsNone(EnvelopeOf(c).citation_lookup)
            /\ CountMarkers(EnvelopeOf(c).answer) = Len(Value(EnvelopeOf(c).citation_lookup))

(* An envelope that carries another coroutine's mapping, two markers for    *)
(* its two keys.                                                            *)
C10_Witness ==
    \E c \in Calls :
        /\ pc[c] = "done"
        /\ EnvelopeOf(c).citation_lookup # OwnCitations(c)
        /\ Len(Value(EnvelopeOf(c).citation_lookup)) = 2
        /\ CountMarkers(EnvelopeOf(c).answer) = 2
====
